---- MODULE Spec2Model ----
(***************************************************************************)
(* A model of the notebooks of asl-ml-immersion:                           *)
(*   - the DCGAN lab (deepconv_gan.ipynb): building the two models, the    *)
(*     training loop with its progress images and checkpoints, the restore *)
(*     of the latest checkpoint and the GIF writer cell;                   *)
(*   - the stock-direction lab (unnamed/part_000): clean_data and          *)
(*     create_query;                                                       *)
(*   - the CI/CD lab (kfp_cicd_vertex.ipynb): the Cloud Build workflow of  *)
(*     cloudbuild_vertex.yaml and the tag trigger that starts it.          *)
(* Each notebook cell or statement of a function is one action; pc is the  *)
(* position of the notebook's single thread of control.                    *)
(***************************************************************************)
EXTENDS Integers, Sequences, FiniteSets, TLC

VARIABLES
    pc,                      \* position of the DCGAN notebook's control
    interrupted,             \* TRUE once train was interrupted (KeyboardInterrupt)
    restored,                \* TRUE once the restore cell has run
    error,                   \* exception that ended a cell, "none" if none
    models,                  \* names of the models the make_* calls returned
    genStack,                \* output shape of the learner's generator layer stack
    discStack,               \* output shape of the learner's discriminator layer stack
    generator,               \* weights of the generator
    discriminator,           \* weights of the discriminator
    generator_optimizer,     \* state of the generator's Adam optimizer
    discriminator_optimizer, \* state of the discriminator's Adam optimizer
    seed,                    \* the noise the progress images are generated from
    epochs,                  \* train's argument
    epoch,                   \* train's loop variable (0-based)
    batch,                   \* number of batches of the dataset consumed in this epoch
    frame,                   \* train_step's local variables
    pre,                     \* history: the networks when the current train_step was entered
    files,                   \* ./gan_images: epoch number -> what the file shows
    checkpoints,             \* ./gan_training_checkpoints: ckpt-1, ckpt-2, ...
    atEpochEnd,              \* history: the networks after the train steps of each epoch
    stepsRun,                \* history: number of train_step calls that have returned
    left,                    \* history: the networks as the last train_step left them
    gif,                     \* state of the GIF writer cell
    clean,                   \* state of a clean_data call
    query,                   \* state of the create_query calls
    cicd                     \* the GitHub fork, its trigger and the Cloud Build runs

buildVars == <<error, models, genStack, discStack>>
netVars == <<generator, discriminator, generator_optimizer, discriminator_optimizer>>
loopVars == <<epochs, epoch, batch>>
diskVars == <<files, checkpoints>>
histVars == <<pre, atEpochEnd, stepsRun, left>>
ganVars == <<pc, interrupted, restored, buildVars, netVars, seed, loopVars, frame,
             diskVars, histVars>>

vars == <<ganVars, gif, clean, query, cicd>>

-----------------------------------------------------------------------------
(* Bounds of the model.                                                    *)

\* largest number of epochs train is called with
MaxEpochs == 50
\* number of batches of the dataset
NumBatches == 2
\* number of distinct noise samples tf.random.normal can return
NumNoise == 2
\* largest number of image files in ./gan_images when the GIF cell runs
MaxFiles == 4
\* largest number of rows of the dataframe given to clean_data
MaxRows == 2
\* largest number of create_query calls
MaxCalls == 3
\* largest number of Cloud Build runs
MaxBuilds == 2
\* largest number of pushes of commits without a tag
MaxCommits == 1

(* Constants of the program.                                               *)

\* EPOCHS = 50
EPOCHS == 50
\* if (epoch + 1) % 15 == 0
CheckpointEvery == 15
\* {epoch:04d}
PadWidth == 4
\* noise_dim = 100
noise_dim == 100
\* num_examples_to_generate = 16
num_examples_to_generate == 16

-----------------------------------------------------------------------------
(* The DCGAN notebook: building the models.                                *)

\* assert model.output_shape == (None, 28, 28, 1)
GeneratorShape == <<"None", 28, 28, 1>>
\* assert model.output_shape == (None, 1)
DiscriminatorShape == <<"None", 1>>

\* A Sequential model whose layers give it no input shape has no defined
\* output shape; it is written <<>> and reading output_shape raises.
NoShape == <<>>

\* genStack and discStack before the learner's stack has been built.
NotBuilt == <<"not built">>

\* Output shapes of the layer stacks a learner may write under "TODO: Your
\* code goes here": the wanted shape, other shapes, and no shape at all (the
\* cell as given, an empty stack, is of this kind).
Stacks == {NoShape, GeneratorShape, DiscriminatorShape,
           <<"None", 14, 14, 1>>, <<"None", 28, 28, 3>>, <<"None", 2>>}

\* Freshly initialised weights of a network: no update applied yet.
\* from: the forward pass (generator and discriminator versions) the last
\* applied gradient was computed from.
InitWeights == [updates |-> 0, from |-> [g |-> -1, d |-> -1]]

\* tf.keras.optimizers.Adam(1e-4): no step taken yet.
InitOptimizer == [iterations |-> 0]

\* The function without its assert statement: the mutant of BuildOutcome.
BuildOutcomeNoAssert(shape, wanted) ==
    IF shape = NoShape THEN "AttributeError" ELSE "none"

\* The outcome of "assert model.output_shape == wanted; return model" for a
\* stack with that output shape: the exception raised, or "none" when the
\* model is returned.
BuildOutcome(shape, wanted) ==
    IF shape = NoShape THEN "AttributeError"
    ELSE IF shape # wanted THEN "AssertionError"
    ELSE "none"

\* generator = make_generator_model()
MakeGeneratorModel ==
    /\ pc = "make_generator"
    /\ \E s \in Stacks :
        /\ genStack' = s
        /\ error' = BuildOutcome(s, GeneratorShape)
        /\ IF BuildOutcome(s, GeneratorShape) = "none"
           THEN /\ models' = models \cup {"generator"}
                /\ pc' = "make_discriminator"
           ELSE /\ models' = models
                /\ pc' = "failed"
    /\ UNCHANGED <<interrupted, restored, discStack, netVars, seed, loopVars,
                   frame, diskVars, histVars, gif, clean, query, cicd>>

\* discriminator = make_discriminator_model()
MakeDiscriminatorModel ==
    /\ pc = "make_discriminator"
    /\ \E s \in Stacks :
        /\ discStack' = s
        /\ error' = BuildOutcome(s, DiscriminatorShape)
        /\ IF BuildOutcome(s, DiscriminatorShape) = "none"
           THEN /\ models' = models \cup {"discriminator"}
                /\ pc' = "sample_seed"
           ELSE /\ models' = models
                /\ pc' = "failed"
    /\ UNCHANGED <<interrupted, restored, genStack, netVars, seed, loopVars,
                   frame, diskVars, histVars, gif, clean, query, cicd>>

-----------------------------------------------------------------------------
(* The DCGAN notebook: the training loop.                                  *)

\* seed before the cell that samples it has run.
NoSeed == [shape |-> <<0, 0>>, value |-> 0]

\* train_step's local variables before they are assigned. A forward pass is
\* named by the generator and discriminator versions and the noise it used.
NoPass == [g |-> -1, d |-> -1, noise |-> 0]
NoFrame == [noise |-> 0, generated_images |-> NoPass, real_output |-> NoPass,
            fake_output |-> NoPass, gen_loss |-> NoPass, disc_loss |-> NoPass,
            gradients_of_generator |-> NoPass,
            gradients_of_discriminator |-> NoPass]

\* The four objects tf.train.Checkpoint tracks.
Networks == [generator |-> generator,
             discriminator |-> discriminator,
             generator_optimizer |-> generator_optimizer,
             discriminator_optimizer |-> discriminator_optimizer]

\* seed = tf.random.normal([num_examples_to_generate, noise_dim])
SampleSeed ==
    /\ pc = "sample_seed"
    /\ \E v \in 1..NumNoise :
        seed' = [shape |-> <<num_examples_to_generate, noise_dim>>, value |-> v]
    /\ pc' = "call_train"
    /\ UNCHANGED <<interrupted, restored, buildVars, netVars, loopVars, frame,
                   diskVars, histVars, gif, clean, query, cicd>>

\* train(train_dataset, EPOCHS), or with another number of epochs
CallTrain ==
    /\ pc = "call_train"
    /\ \E n \in 0..MaxEpochs : epochs' = n
    /\ epoch' = 0
    /\ batch' = 0
    /\ pc' = "for_epoch"
    /\ UNCHANGED <<interrupted, restored, buildVars, netVars, seed, frame,
                   diskVars, histVars, gif, clean, query, cicd>>

\* The order of train's loop body with the checkpoint before the image: the
\* mutant of TrainNext.
TrainNextCheckpointFirst(p) ==
    CASE p = "for_batch" -> "checkpoint"
      [] p = "checkpoint" -> "image"
      [] p = "image" -> "print"
      [] p = "print" -> "for_epoch"

\* The statement of train's loop body that follows statement p: the loop
\* over the batches, generate_and_save_images, the checkpoint, the print, and
\* back to the head of the loop.
TrainNext(p) ==
    CASE p = "for_batch" -> "image"
      [] p = "image" -> "checkpoint"
      [] p = "checkpoint" -> "print"
      [] p = "print" -> "for_epoch"

\* for epoch in range(epochs): epoch counts the iterations already made
ForEpoch ==
    /\ pc = "for_epoch"
    /\ ~interrupted
    /\ IF epoch < epochs
       THEN pc' = "for_batch"
       ELSE pc' = "final_image"
    /\ batch' = 0
    /\ UNCHANGED <<interrupted, restored, buildVars, netVars, seed, epochs,
                   epoch, frame, diskVars, histVars, gif, clean, query, cicd>>

\* for image_batch in dataset: train_step(image_batch)
ForBatch ==
    /\ pc = "for_batch"
    /\ ~interrupted
    /\ IF batch < NumBatches
       THEN /\ pc' = "ts_noise"
            /\ pre' = Networks
            /\ atEpochEnd' = atEpochEnd
       ELSE /\ pc' = TrainNext("for_batch")
            /\ pre' = pre
            /\ atEpochEnd' = Append(atEpochEnd, Networks)
    /\ UNCHANGED <<interrupted, restored, buildVars, netVars, seed, loopVars,
                   frame, diskVars, stepsRun, left, gif, clean, query, cicd>>

\* The statement of train_step that follows statement p, as a chain gradients
\* first and both updates last (the mutant: each network's update right after
\* its own gradient).
TrainStepNextInterleaved(p) ==
    CASE p = "ts_noise" -> "ts_forward"
      [] p = "ts_forward" -> "ts_grad_g"
      [] p = "ts_grad_g" -> "ts_apply_g"
      [] p = "ts_apply_g" -> "ts_grad_d"
      [] p = "ts_grad_d" -> "ts_apply_d"
      [] p = "ts_apply_d" -> "for_batch"

\* The statement of train_step that follows statement p; after the last one
\* control is back in train's loop over the batches.
TrainStepNext(p) ==
    CASE p = "ts_noise" -> "ts_forward"
      [] p = "ts_forward" -> "ts_grad_g"
      [] p = "ts_grad_g" -> "ts_grad_d"
      [] p = "ts_grad_d" -> "ts_apply_g"
      [] p = "ts_apply_g" -> "ts_apply_d"
      [] p = "ts_apply_d" -> "for_batch"

\* optimizer.apply_gradients(zip(gradients, variables)) on a network: one
\* more update, made with a gradient of the forward pass grad.
ApplyGradients(weights, grad) ==
    [updates |-> weights.updates + 1, from |-> [g |-> grad.g, d |-> grad.d]]

\* The optimizer after one apply_gradients call.
OptimizerStep(opt) == [iterations |-> opt.iterations + 1]

\* noise = tf.random.normal([BATCH_SIZE, noise_dim])
TsNoise ==
    /\ pc = "ts_noise"
    /\ ~interrupted
    /\ \E z \in 1..NumNoise : frame' = [NoFrame EXCEPT !.noise = z]
    /\ pc' = TrainStepNext("ts_noise")
    /\ UNCHANGED <<interrupted, restored, buildVars, netVars, seed, loopVars,
                   diskVars, histVars, gif, clean, query, cicd>>

\* The forward pass under the two gradient tapes:
\*   generated_images = generator(noise, training=True)
\*   real_output = discriminator(images, training=True)
\*   fake_output = discriminator(generated_images, training=True)
\*   gen_loss = generator_loss(fake_output)
\*   disc_loss = discriminator_loss(real_output, fake_output)
ForwardPass(fr) ==
    LET generated_images == [g |-> generator.updates, d |-> -1, noise |-> fr.noise]
        real_output == [g |-> -1, d |-> discriminator.updates, noise |-> 0]
        fake_output == [g |-> generated_images.g, d |-> discriminator.updates,
                        noise |-> generated_images.noise]
    IN [fr EXCEPT !.generated_images = generated_images,
                  !.real_output = real_output,
                  !.fake_output = fake_output,
                  !.gen_loss = fake_output,
                  !.disc_loss = [g |-> fake_output.g, d |-> real_output.d,
                                 noise |-> fake_output.noise]]

TsForward ==
    /\ pc = "ts_forward"
    /\ ~interrupted
    /\ frame' = ForwardPass(frame)
    /\ pc' = TrainStepNext("ts_forward")
    /\ UNCHANGED <<interrupted, restored, buildVars, netVars, seed, loopVars,
                   diskVars, histVars, gif, clean, query, cicd>>

\* gradients_of_generator = gen_tape.gradient(gen_loss, generator.trainable_variables)
TsGradG ==
    /\ pc = "ts_grad_g"
    /\ ~interrupted
    /\ frame' = [frame EXCEPT !.gradients_of_generator = frame.gen_loss]
    /\ pc' = TrainStepNext("ts_grad_g")
    /\ UNCHANGED <<interrupted, restored, buildVars, netVars, seed, loopVars,
                   diskVars, histVars, gif, clean, query, cicd>>

\* gradients_of_discriminator = disc_tape.gradient(disc_loss, discriminator.trainable_variables)
TsGradD ==
    /\ pc = "ts_grad_d"
    /\ ~interrupted
    /\ frame' = [frame EXCEPT !.gradients_of_discriminator = frame.disc_loss]
    /\ pc' = TrainStepNext("ts_grad_d")
    /\ UNCHANGED <<interrupted, restored, buildVars, netVars, seed, loopVars,
                   diskVars, histVars, gif, clean, query, cicd>>

\* generator_optimizer.apply_gradients(zip(gradients_of_generator, ...))
TsApplyG ==
    /\ pc = "ts_apply_g"
    /\ ~interrupted
    /\ generator' = ApplyGradients(generator, frame.gradients_of_generator)
    /\ generator_optimizer' = OptimizerStep(generator_optimizer)
    /\ pc' = TrainStepNext("ts_apply_g")
    /\ UNCHANGED <<interrupted, restored, buildVars, discriminator,
                   discriminator_optimizer, seed, loopVars, frame, diskVars,
                   histVars, gif, clean, query, cicd>>

\* discriminator_optimizer.apply_gradients(zip(gradients_of_discriminator, ...))
\* and the return of train_step to the loop over the batches
TsApplyD ==
    /\ pc = "ts_apply_d"
    /\ ~interrupted
    /\ discriminator' = ApplyGradients(discriminator, frame.gradients_of_discriminator)
    /\ discriminator_optimizer' = OptimizerStep(discriminator_optimizer)
    /\ frame' = NoFrame
    /\ batch' = batch + 1
    /\ stepsRun' = stepsRun + 1
    /\ left' = [Networks EXCEPT
                   !.discriminator = discriminator',
                   !.discriminator_optimizer = discriminator_optimizer']
    /\ pc' = TrainStepNext("ts_apply_d")
    /\ UNCHANGED <<interrupted, restored, buildVars, generator,
                   generator_optimizer, seed, epochs, epoch, diskVars, pre,
                   atEpochEnd, gif, clean, query, cicd>>

-----------------------------------------------------------------------------
(* The DCGAN notebook: progress images and checkpoints.                    *)

RECURSIVE Digits(_)
\* The decimal digits of n >= 0, most significant first.
Digits(n) == IF n < 10 THEN <<n>> ELSE Append(Digits(n \div 10), n % 10)

RECURSIVE ZeroPad(_, _)
\* The digits ds, with zeros put in front until there are at least w.
ZeroPad(ds, w) == IF Len(ds) >= w THEN ds ELSE ZeroPad(<<0>> \o ds, w)

\* f"{n}": the mutant of Format04d, without padding.
FormatPlain(n) == Digits(n)

\* f"{n:04d}" for n >= 0, as a sequence of digits.
Format04d(n) == ZeroPad(Digits(n), PadWidth)

\* ".png" as character codes.
DotPng == <<46, 112, 110, 103>>

\* f"./gan_images/image_at_epoch_{epoch:04d}.png" as character codes, without
\* the prefix "./gan_images/image_at_epoch_" that all the names share.
ImageName(e) == [i \in 1..Len(Format04d(e)) |-> 48 + Format04d(e)[i]] \o DotPng

\* model(test_input, training=True) updates the batch-norm statistics of the
\* model: the mutant of InferenceModel.
TrainingModeModel(model) == [model EXCEPT !.updates = @ + 1]

\* The model after model(test_input, training=False): inference changes nothing.
InferenceModel(model) == model

\* generate_and_save_images draws from fresh noise: the mutant of ImageInput.
FreshNoiseInput(test_input) == [test_input EXCEPT !.value = (@ % NumNoise) + 1]

\* The input generate_and_save_images feeds to the model: its argument.
ImageInput(test_input) == test_input

\* generate_and_save_images(model, e, test_input): the directory afterwards.
\* plt.savefig writes the file of that epoch, replacing an older one.
\* (./gan_images is taken to exist.)
SaveImage(dir, model, e, test_input) ==
    LET name == ImageName(e)
        picture == [shows |-> model, input |-> ImageInput(test_input)]
    IN [n \in DOMAIN dir \cup {name} |-> IF n = name THEN picture ELSE dir[n]]

\* generate_and_save_images(generator, epoch, seed) inside the loop: the
\* mutant of LoopImageEpoch.
LoopImageEpochZeroBased(e) == e

\* The epoch number the loop passes to generate_and_save_images: epoch + 1.
LoopImageEpoch(e) == e + 1

\* generate_and_save_images(generator, epoch + 1, seed)
Image ==
    /\ pc = "image"
    /\ ~interrupted
    /\ files' = SaveImage(files, generator, LoopImageEpoch(epoch), seed)
    /\ generator' = InferenceModel(generator)
    /\ pc' = TrainNext("image")
    /\ UNCHANGED <<interrupted, restored, buildVars, discriminator,
                   generator_optimizer, discriminator_optimizer, seed, loopVars,
                   frame, checkpoints, histVars, gif, clean, query, cicd>>

\* if epoch % 15 == 0: the mutant of SaveDue.
SaveDueZeroBased(e) == e % CheckpointEvery = 0

\* if (epoch + 1) % 15 == 0, for the loop variable e
SaveDue(e) == (e + 1) % CheckpointEvery = 0

\* checkpoint.save(file_prefix=checkpoint_prefix), when due
Checkpoint ==
    /\ pc = "checkpoint"
    /\ ~interrupted
    /\ IF SaveDue(epoch)
       THEN checkpoints' = Append(checkpoints, Networks)
       ELSE checkpoints' = checkpoints
    /\ pc' = TrainNext("checkpoint")
    /\ UNCHANGED <<interrupted, restored, buildVars, netVars, seed, loopVars,
                   frame, files, histVars, gif, clean, query, cicd>>

\* print(f"Time for epoch ..."), and the loop's step to the next epoch
PrintTime ==
    /\ pc = "print"
    /\ ~interrupted
    /\ epoch' = epoch + 1
    /\ pc' = TrainNext("print")
    /\ UNCHANGED <<interrupted, restored, buildVars, netVars, seed, epochs,
                   batch, frame, diskVars, histVars, gif, clean, query, cicd>>

\* Generate after the final epoch: generate_and_save_images(generator, epochs, seed)
FinalImage ==
    /\ pc = "final_image"
    /\ ~interrupted
    /\ files' = SaveImage(files, generator, epochs, seed)
    /\ generator' = InferenceModel(generator)
    /\ pc' = "returned"
    /\ UNCHANGED <<interrupted, restored, buildVars, discriminator,
                   generator_optimizer, discriminator_optimizer, seed, loopVars,
                   frame, checkpoints, histVars, gif, clean, query, cicd>>

\* The positions of control inside train.
InTrain == {"for_epoch", "for_batch", "ts_noise", "ts_forward", "ts_grad_g",
            "ts_grad_d", "ts_apply_g", "ts_apply_d", "image", "checkpoint",
            "print", "final_image"}

\* The kernel is interrupted while train runs.
Interrupt ==
    /\ pc \in InTrain
    /\ ~interrupted
    /\ interrupted' = TRUE
    /\ UNCHANGED <<pc, restored, buildVars, netVars, seed, loopVars, frame,
                   diskVars, histVars, gif, clean, query, cicd>>

\* restore of the oldest checkpoint: the mutant of RestoreLatest.
RestoreOldest(nets, ckpts) == IF ckpts = <<>> THEN nets ELSE ckpts[1]

\* checkpoint.restore(tf.train.latest_checkpoint(checkpoint_dir)) on the
\* tracked objects nets: latest_checkpoint is None for a directory without a
\* checkpoint and restore(None) restores nothing.
RestoreLatest(nets, ckpts) == IF ckpts = <<>> THEN nets ELSE ckpts[Len(ckpts)]

\* The cell "Restore the latest checkpoint", run after train has returned or
\* was interrupted.
Restore ==
    /\ pc = "returned" \/ interrupted
    /\ ~restored
    /\ restored' = TRUE
    /\ generator' = RestoreLatest(Networks, checkpoints).generator
    /\ discriminator' = RestoreLatest(Networks, checkpoints).discriminator
    /\ generator_optimizer' = RestoreLatest(Networks, checkpoints).generator_optimizer
    /\ discriminator_optimizer' =
           RestoreLatest(Networks, checkpoints).discriminator_optimizer
    /\ UNCHANGED <<pc, interrupted, buildVars, seed, loopVars, frame, diskVars,
                   histVars, gif, clean, query, cicd>>

-----------------------------------------------------------------------------
(* The specification of the DCGAN notebook.                                *)

\* The GIF writer cell and clean_data before they run.
GifIdle == [pc |-> "idle", dir |-> {}, filenames |-> <<>>, i |-> 0,
            filename |-> <<>>, last |-> -1, frames |-> <<>>, error |-> "none"]
CleanIdle == [pc |-> "idle", input_df |-> <<>>, df |-> <<>>, returned |-> <<>>,
              error |-> "none"]

\* create_query before its first call, and the fork before its first push.
QueryIdle == [pc |-> "idle", phase |-> "", basequery |-> <<>>, floor |-> "",
              ceiling |-> "", split |-> <<>>, calls |-> <<>>]
CicdIdle == [tags |-> {}, commits |-> 0, builds |-> <<>>]

\* The notebook before its first cell: the optimizers are created, nothing
\* is trained, both directories are empty.
GanInit ==
    /\ pc = "make_generator"
    /\ interrupted = FALSE
    /\ restored = FALSE
    /\ error = "none"
    /\ models = {}
    /\ genStack = NotBuilt
    /\ discStack = NotBuilt
    /\ generator = InitWeights
    /\ discriminator = InitWeights
    /\ generator_optimizer = InitOptimizer
    /\ discriminator_optimizer = InitOptimizer
    /\ seed = NoSeed
    /\ epochs = 0
    /\ epoch = 0
    /\ batch = 0
    /\ frame = NoFrame
    /\ pre = Networks
    /\ files = <<>>
    /\ checkpoints = <<>>
    /\ atEpochEnd = <<>>
    /\ stepsRun = 0
    /\ left = Networks

Init ==
    /\ GanInit
    /\ gif = GifIdle
    /\ clean = CleanIdle
    /\ query = QueryIdle
    /\ cicd = CicdIdle

Next ==
    \/ MakeGeneratorModel
    \/ MakeDiscriminatorModel
    \/ SampleSeed
    \/ CallTrain
    \/ ForEpoch
    \/ ForBatch
    \/ TsNoise
    \/ TsForward
    \/ TsGradG
    \/ TsGradD
    \/ TsApplyG
    \/ TsApplyD
    \/ Image
    \/ Checkpoint
    \/ PrintTime
    \/ FinalImage
    \/ Interrupt
    \/ Restore

Spec == Init /\ [][Next]_vars

-----------------------------------------------------------------------------
(* Properties of the DCGAN notebook.                                       *)

\* The positions of control inside train_step.
InTrainStep == {"ts_noise", "ts_forward", "ts_grad_g", "ts_grad_d",
                "ts_apply_g", "ts_apply_d"}

\* The number of epochs whose work is done: their train steps, their progress
\* image and their checkpoint statement have all run.
CompletedEpochs == IF pc = "print" THEN epoch + 1 ELSE epoch

\* The names of the progress image files of the epochs in E.
ImageNames(E) == {ImageName(e) : e \in E}

\* C1: a checkpoint is saved at the end of epoch e (1-based) if and only if e
\* is a multiple of 15: at every moment there are as many checkpoints as
\* completed epochs that are multiples of 15, the k-th checkpoint holds the
\* networks as they were at the end of epoch 15 * k, and a run of N epochs
\* that has returned has saved N div 15 checkpoints (none when N < 15).
C1_CheckpointEvery15 ==
    /\ Len(checkpoints) = CompletedEpochs \div CheckpointEvery
    /\ \A k \in 1..Len(checkpoints) :
        /\ k * CheckpointEvery <= Len(atEpochEnd)
        /\ checkpoints[k] = atEpochEnd[k * CheckpointEvery]
    /\ pc = "returned" =>
        /\ Len(checkpoints) = epochs \div CheckpointEvery
        /\ (epochs < CheckpointEvery => checkpoints = <<>>)

\* C1 witness: train(dataset, EPOCHS) has returned with its 3 checkpoints.
C1_Witness ==
    /\ pc = "returned"
    /\ epochs = EPOCHS
    /\ Len(checkpoints) = 3
    /\ checkpoints[3] = atEpochEnd[45]

\* C2: when the restore cell runs after train was interrupted (or returned),
\* it sets generator, discriminator and both optimizers to what they were at
\* the end of the last completed epoch that is a multiple of 15; when no such
\* epoch has completed there is no checkpoint and the four are left as they
\* are.
C2_RestoreLatest ==
    [][(restored' /\ ~restored) =>
         LET e == CheckpointEvery * (CompletedEpochs \div CheckpointEvery)
         IN IF e = 0
            THEN checkpoints = <<>> /\ UNCHANGED netVars
            ELSE /\ generator' = atEpochEnd[e].generator
                 /\ discriminator' = atEpochEnd[e].discriminator
                 /\ generator_optimizer' = atEpochEnd[e].generator_optimizer
                 /\ discriminator_optimizer' = atEpochEnd[e].discriminator_optimizer
      ]_vars

\* C2 witness: train was interrupted in a train step of an epoch after the
\* second checkpoint, and the restore has put the generator back to the end
\* of epoch 30.
C2_Witness ==
    /\ interrupted
    /\ restored
    /\ pc = "ts_apply_d"
    /\ Len(checkpoints) = 2
    /\ stepsRun > 2 * CheckpointEvery * NumBatches
    /\ generator = atEpochEnd[2 * CheckpointEvery].generator
    /\ generator.updates = 2 * CheckpointEvery * NumBatches

\* C3: within every epoch train_step runs once per batch, then the progress
\* image of the epoch is saved, then (for multiples of 15) the checkpoint,
\* and only then the next epoch starts; a train_step is entered only when
\* none is running, with the networks as the previous one left them.
C3_EpochOrder ==
    /\ (pc \in InTrainStep \cup {"for_batch"} /\ ~restored) =>
        /\ stepsRun = epoch * NumBatches + batch
        /\ DOMAIN files = ImageNames(1..epoch)
        /\ Len(checkpoints) = epoch \div CheckpointEvery
    /\ pc = "for_batch" => frame = NoFrame
    /\ pc \in InTrainStep => pre = left
    /\ pc = "image" =>
        /\ stepsRun = (epoch + 1) * NumBatches
        /\ DOMAIN files = ImageNames(1..epoch)
        /\ Len(checkpoints) = epoch \div CheckpointEvery
    /\ pc = "checkpoint" =>
        /\ stepsRun = (epoch + 1) * NumBatches
        /\ DOMAIN files = ImageNames(1..(epoch + 1))
        /\ Len(checkpoints) = epoch \div CheckpointEvery
    /\ pc = "print" =>
        /\ stepsRun = (epoch + 1) * NumBatches
        /\ DOMAIN files = ImageNames(1..(epoch + 1))
        /\ Len(checkpoints) = (epoch + 1) \div CheckpointEvery

\* C3 witness: the second train step of epoch 16 is running, after the image
\* and the checkpoint of epoch 15.
C3_Witness ==
    /\ pc = "ts_forward"
    /\ epoch = CheckpointEvery
    /\ batch = 1
    /\ Len(checkpoints) = 1
    /\ ImageName(CheckpointEvery) \in DOMAIN files

\* The forward pass of the train step that is running: the networks as they
\* were when the step was entered, and the step's noise.
ThisPass == [g |-> pre.generator.updates, d |-> pre.discriminator.updates,
             noise |-> frame.noise]

\* C4: in train_step both losses come from the same forward pass (the step's
\* noise and the weights both networks had when the step was entered), both
\* gradients are computed before either update is applied, and the step
\* applies exactly one update to each network; the discriminator's update is
\* computed from the generator as it was before its update. (The networks
\* are compared while train runs or stands interrupted, before a restore
\* replaces them.)
C4_TrainStep ==
    /\ pc \in {"ts_grad_g", "ts_grad_d", "ts_apply_g", "ts_apply_d"} =>
        /\ frame.noise \in 1..NumNoise
        /\ frame.gen_loss = ThisPass
        /\ frame.disc_loss = ThisPass
    /\ (pc = "ts_apply_g" /\ ~restored) =>
        /\ frame.gradients_of_generator = ThisPass
        /\ frame.gradients_of_discriminator = ThisPass
        /\ Networks = pre
    /\ (pc = "ts_apply_d" /\ ~restored) =>
        /\ frame.gradients_of_discriminator = ThisPass
        /\ generator = ApplyGradients(pre.generator, ThisPass)
        /\ generator_optimizer = OptimizerStep(pre.generator_optimizer)
        /\ discriminator = pre.discriminator
        /\ discriminator_optimizer = pre.discriminator_optimizer
    /\ (pc = "for_batch" /\ batch > 0 /\ ~restored) =>
        /\ generator.updates = pre.generator.updates + 1
        /\ discriminator.updates = pre.discriminator.updates + 1
        /\ generator.from = [g |-> pre.generator.updates,
                             d |-> pre.discriminator.updates]
        /\ discriminator.from = generator.from
        /\ generator_optimizer.iterations = pre.generator_optimizer.iterations + 1
        /\ discriminator_optimizer.iterations =
               pre.discriminator_optimizer.iterations + 1

\* C4 witness: a train step that did not start from fresh weights has
\* returned, with one update applied to each network.
C4_Witness ==
    /\ pc = "for_batch"
    /\ batch = NumBatches
    /\ ~interrupted
    /\ pre.generator.updates > 0
    /\ discriminator.updates = pre.discriminator.updates + 1
    /\ discriminator.from.g = pre.generator.updates

\* C5: after train(dataset, N) has returned the progress image files are
\* those of the epochs 1..N when N >= 1 and that of epoch 0 when N = 0, and
\* the file of epoch e shows the generator as it was after the train steps of
\* epoch e.
C5_ImageFiles ==
    pc = "returned" =>
        /\ DOMAIN files = ImageNames(IF epochs >= 1 THEN 1..epochs ELSE {0})
        /\ \A e \in 1..epochs :
            files[ImageName(e)].shows = atEpochEnd[e].generator

\* C5 witness: train has returned after more than one epoch (and, for the
\* other case, after none).
C5_Witness ==
    /\ pc = "returned"
    /\ epochs = 3
    /\ Cardinality(DOMAIN files) = 3
    /\ files[ImageName(2)].shows.updates = 2 * NumBatches

\* C6: once sampled (16 x 100) the seed is never changed, and every progress
\* image in ./gan_images was generated from it.
C6_SeedFixed ==
    [][/\ seed # NoSeed => seed' = seed
       /\ seed' # NoSeed => seed'.shape = <<16, 100>>
       /\ \A n \in DOMAIN files' : files'[n].input = seed'
      ]_vars

\* C6 witness: images of several epochs exist, made while train steps drew
\* their own noise.
C6_Witness ==
    /\ pc = "ts_forward"
    /\ epoch = 2
    /\ frame.noise # seed.value
    /\ Cardinality(DOMAIN files) = 2

\* C7 as stated: a model is returned only for the wanted output shape, and
\* every other layer stack ends the call in an assertion failure.
C7_Original ==
    /\ "generator" \in models => genStack = GeneratorShape
    /\ "discriminator" \in models => discStack = DiscriminatorShape
    /\ genStack \notin {NotBuilt, GeneratorShape} =>
        error = "AssertionError" /\ "generator" \notin models
    /\ discStack \notin {NotBuilt, DiscriminatorShape} =>
        error = "AssertionError" /\ "discriminator" \notin models

\* C7 amended: a model is returned only for the wanted output shape; every
\* other layer stack ends the call without a model, in an assertion failure
\* when the stack has an output shape, and in the error of reading
\* output_shape when it has none.
C7_ShapeAssert ==
    /\ "generator" \in models => genStack = GeneratorShape
    /\ "discriminator" \in models => discStack = DiscriminatorShape
    /\ genStack \notin {NotBuilt, GeneratorShape} =>
        /\ "generator" \notin models
        /\ pc = "failed"
        /\ error = IF genStack = NoShape THEN "AttributeError" ELSE "AssertionError"
    /\ discStack \notin {NotBuilt, DiscriminatorShape} =>
        /\ "discriminator" \notin models
        /\ pc = "failed"
        /\ error = IF discStack = NoShape THEN "AttributeError" ELSE "AssertionError"

\* C7 witness: the generator was returned and the discriminator's stack, of
\* another shape, failed its assertion.
C7_Witness ==
    /\ models = {"generator"}
    /\ discStack = <<"None", 2>>
    /\ error = "AssertionError"

-----------------------------------------------------------------------------
(* The DCGAN notebook: the GIF writer cell.                                *)

\* Epoch numbers of the image files that may lie in ./gan_images when the
\* cell runs: numbers of one to four digits, up to the largest that
\* {epoch:04d} writes with four digits.
EpochSample == {0, 1, 9, 10, 11, 99, 100, 999, 1000, 10 ^ PadWidth - 1}

\* String comparison as Python's < on str: by the first character that
\* differs, a proper prefix being the smaller.
LexLess(a, b) ==
    \/ \E k \in 1..Len(a) :
        /\ k <= Len(b)
        /\ \A j \in 1..(k - 1) : a[j] = b[j]
        /\ a[k] < b[k]
    \/ /\ Len(a) < Len(b)
       /\ \A j \in 1..Len(a) : a[j] = b[j]

RECURSIVE Insert(_, _)
\* The sorted list s with the name x put in its place.
Insert(x, s) ==
    IF s = <<>> THEN <<x>>
    ELSE IF LexLess(x, Head(s)) THEN <<x>> \o s
    ELSE <<Head(s)>> \o Insert(x, Tail(s))

RECURSIVE Sorted(_)
\* sorted(filenames)
Sorted(s) == IF s = <<>> THEN <<>> ELSE Insert(Head(s), Sorted(Tail(s)))

RECURSIVE DigitsValue(_)
\* The number a sequence of digit characters writes.
DigitsValue(cs) ==
    IF cs = <<>> THEN 0
    ELSE 10 * DigitsValue(SubSeq(cs, 1, Len(cs) - 1)) + (cs[Len(cs)] - 48)

\* The epoch number in the name of an image file.
EpochOf(name) == DigitsValue(SubSeq(name, 1, Len(name) - Len(DotPng)))

\* round(2 * (i ** 0.5)) for i >= 0: the integer nearest to sqrt(4 * i), which
\* is never half way between two integers (16 * i is even, (2k + 1)^2 odd).
RoundFrame(i) ==
    CHOOSE k \in 0..(2 * i + 1) :
        /\ 16 * i < (2 * k + 1) * (2 * k + 1)
        /\ k = 0 \/ (2 * k - 1) * (2 * k - 1) < 16 * i

\* round(last): last is -1 before the first frame and afterwards the frame
\* value 2 * (i ** 0.5) of the index i kept in its place.
RoundLast(l) == IF l < 0 THEN -1 ELSE RoundFrame(l)

\* The orders in which glob.glob may list the files of a directory.
Listings(dir) ==
    {f \in [1..Cardinality(dir) -> dir] : \A j, k \in DOMAIN f : j # k => f[j] # f[k]}

\* filenames = glob.glob("./gan_images/image*.png")
GifGlob ==
    /\ gif.pc = "glob"
    /\ \E l \in Listings(gif.dir) : gif' = [gif EXCEPT !.filenames = l, !.pc = "sorted"]
    /\ UNCHANGED <<ganVars, clean, query, cicd>>

\* filenames = sorted(filenames); last = -1
GifSorted ==
    /\ gif.pc = "sorted"
    /\ gif' = [gif EXCEPT !.filenames = Sorted(gif.filenames), !.last = -1,
                          !.i = 0, !.pc = "loop"]
    /\ UNCHANGED <<ganVars, clean, query, cicd>>

\* One iteration of "for i, filename in enumerate(filenames)": the frame is
\* appended when round(frame) > round(last), and skipped otherwise. i counts
\* the iterations made.
GifLoop ==
    /\ gif.pc = "loop"
    /\ gif.i < Len(gif.filenames)
    /\ LET filename == gif.filenames[gif.i + 1]
       IN IF RoundFrame(gif.i) > RoundLast(gif.last)
          THEN gif' = [gif EXCEPT !.filename = filename, !.last = gif.i,
                                  !.frames = Append(@, filename), !.i = @ + 1]
          ELSE gif' = [gif EXCEPT !.filename = filename, !.i = @ + 1]
    /\ UNCHANGED <<ganVars, clean, query, cicd>>

\* After the loop: image = imageio.imread(filename); writer.append_data(image).
\* filename is unbound when the directory had no image file.
GifFinal ==
    /\ gif.pc = "loop"
    /\ gif.i = Len(gif.filenames)
    /\ IF gif.filenames = <<>>
       THEN gif' = [gif EXCEPT !.error = "NameError", !.pc = "failed"]
       ELSE gif' = [gif EXCEPT !.frames = Append(@, gif.filename), !.pc = "done"]
    /\ UNCHANGED <<ganVars, clean, query, cicd>>

\* The cell starts on a directory of at most MaxFiles image files.
GifInit ==
    /\ GanInit
    /\ clean = CleanIdle
    /\ query = QueryIdle
    /\ cicd = CicdIdle
    /\ \E E \in SUBSET EpochSample :
        /\ Cardinality(E) <= MaxFiles
        /\ gif = [GifIdle EXCEPT !.pc = "glob", !.dir = ImageNames(E)]

GifNext ==
    \/ GifGlob
    \/ GifSorted
    \/ GifLoop
    \/ GifFinal

SpecGif == GifInit /\ [][GifNext]_vars

\* The frames the loop has written: all frames but the repeated final one.
LoopFrames ==
    IF gif.pc = "done" THEN SubSeq(gif.frames, 1, Len(gif.frames) - 1)
    ELSE gif.frames

\* C8: for epoch numbers up to 9999 the sorted file names are in the order of
\* their epoch numbers, so the frames the loop writes are in increasing epoch
\* order, and the repeated final frame is that of the largest epoch.
C8_GifOrder ==
    /\ gif.pc \in {"loop", "done"} =>
        /\ Len(gif.filenames) = Cardinality(gif.dir)
        /\ \A j, k \in 1..Len(gif.filenames) :
            j < k => EpochOf(gif.filenames[j]) < EpochOf(gif.filenames[k])
    /\ \A j, k \in 1..Len(LoopFrames) :
        j < k => EpochOf(LoopFrames[j]) < EpochOf(LoopFrames[k])
    /\ gif.pc = "done" =>
        \A n \in gif.dir : EpochOf(n) <= EpochOf(gif.frames[Len(gif.frames)])

\* C8 witness: a GIF was written from files whose epoch numbers have
\* different numbers of digits, the largest being 9999.
C8_Witness ==
    /\ gif.pc = "done"
    /\ Len(gif.filenames) = 3
    /\ EpochOf(gif.filenames[1]) = 9
    /\ EpochOf(gif.filenames[2]) = 10
    /\ EpochOf(gif.filenames[3]) = 9999
    /\ Len(gif.frames) = 4

-----------------------------------------------------------------------------
(* The stock-direction notebook: clean_data.                               *)

\* A missing Date (None, NaT).
NaT == [y |-> 0, m |-> 0, d |-> 0]

\* Date values of the rows given to clean_data: a date, a missing date and a
\* value that is no date (month 13).
DateValues == {[y |-> 2010, m |-> 7, d |-> 1], NaT, [y |-> 2011, m |-> 13, d |-> 1]}

\* Labels of the rows: the three directions and a missing label.
DirectionValues == {"DOWN", "STAY", "UP", "NA"}

\* Close-value lists of the rows: finite values, a list with inf, a list with
\* a missing value.
CloseValues == {<<"1.5", "2.5">>, <<"1.5", "inf">>, <<"nan", "2.5">>}

\* The rows a dataframe given to clean_data may hold.
Rows == [symbol : {"AAPL"}, Date : DateValues, direction : DirectionValues,
         close_values_prior_260 : CloseValues]

\* The dataframes of at most MaxRows rows.
DataFrames == UNION {[1..n -> Rows] : n \in 0..MaxRows}

\* pd.to_datetime(x, errors="coerce") on one value: a value that is no date
\* becomes NaT.
ToDatetime(x) ==
    IF x.y \in 1..9999 /\ x.m \in 1..12 /\ x.d \in 1..31 THEN x ELSE NaT

\* The text of NaN: what strftime leaves in the place of NaT.
NaN == <<>>

\* x.strftime("%Y-%m-%d") as character codes; NaN for NaT.
Strftime(x) ==
    LET chars(ds) == [i \in 1..Len(ds) |-> 48 + ds[i]]
    IN IF x = NaT THEN NaN
       ELSE chars(ZeroPad(Digits(x.y), 4)) \o <<45>> \o chars(ZeroPad(Digits(x.m), 2))
            \o <<45>> \o chars(ZeroPad(Digits(x.d), 2))

\* The labels the dict {"DOWN": 0, "STAY": 1, "UP": 2} has a key for.
Labels == {"DOWN", "STAY", "UP"}

\* The dict with two values exchanged: the mutant of DirectionNumeric.
DirectionNumericSwapped(x) ==
    CASE x = "DOWN" -> 0
      [] x = "STAY" -> 2
      [] x = "UP" -> 1

\* {"DOWN": 0, "STAY": 1, "UP": 2}[x] for a label x the dict has
DirectionNumeric(x) ==
    CASE x = "DOWN" -> 0
      [] x = "STAY" -> 1
      [] x = "UP" -> 2

\* df = input_df.copy()
CleanCopy ==
    /\ clean.pc = "copy"
    /\ clean' = [clean EXCEPT !.df = clean.input_df, !.pc = "to_datetime"]
    /\ UNCHANGED <<ganVars, gif, query, cicd>>

\* df["Date"] = pd.to_datetime(df["Date"], errors="coerce")
CleanToDatetime ==
    /\ clean.pc = "to_datetime"
    /\ clean' = [clean EXCEPT
                   !.df = [i \in DOMAIN clean.df |->
                             [clean.df[i] EXCEPT !.Date = ToDatetime(@)]],
                   !.pc = "strftime"]
    /\ UNCHANGED <<ganVars, gif, query, cicd>>

\* df["Date"] = df["Date"].dt.strftime("%Y-%m-%d")
CleanStrftime ==
    /\ clean.pc = "strftime"
    /\ clean' = [clean EXCEPT
                   !.df = [i \in DOMAIN clean.df |->
                             [clean.df[i] EXCEPT !.Date = Strftime(@)]],
                   !.pc = "direction_numeric"]
    /\ UNCHANGED <<ganVars, gif, query, cicd>>

\* df["direction_numeric"] = df["direction"].apply(lambda x: {...}[x]):
\* a label the dict has no key for raises KeyError and ends the call.
CleanDirection ==
    /\ clean.pc = "direction_numeric"
    /\ IF \A i \in DOMAIN clean.df : clean.df[i].direction \in Labels
       THEN clean' = [clean EXCEPT
                        !.df = [i \in DOMAIN clean.df |->
                                  clean.df[i] @@
                                  ("direction_numeric" :>
                                      DirectionNumeric(clean.df[i].direction))],
                        !.pc = "return"]
       ELSE clean' = [clean EXCEPT !.error = "KeyError", !.pc = "failed"]
    /\ UNCHANGED <<ganVars, gif, query, cicd>>

\* return df
CleanReturn ==
    /\ clean.pc = "return"
    /\ clean' = [clean EXCEPT !.returned = clean.df, !.pc = "returned"]
    /\ UNCHANGED <<ganVars, gif, query, cicd>>

\* clean_data is called with a dataframe of at most MaxRows rows.
CleanInit ==
    /\ GanInit
    /\ gif = GifIdle
    /\ query = QueryIdle
    /\ cicd = CicdIdle
    /\ \E input_df \in DataFrames :
        clean = [CleanIdle EXCEPT !.pc = "copy", !.input_df = input_df]

CleanNext ==
    \/ CleanCopy
    \/ CleanToDatetime
    \/ CleanStrftime
    \/ CleanDirection
    \/ CleanReturn

SpecClean == CleanInit /\ [][CleanNext]_vars

\* A row of the returned dataframe holds an inf or NA value.
HasInfOrNA(row) ==
    \/ row.Date = NaN
    \/ row.direction = "NA"
    \/ \E k \in DOMAIN row.close_values_prior_260 :
        row.close_values_prior_260[k] \in {"inf", "nan"}

\* C9 as stated: no row of the dataframe clean_data returns holds an inf or
\* NA value.
C9_NoInfOrNA ==
    clean.pc = "returned" =>
        \A i \in DOMAIN clean.returned : ~HasInfOrNA(clean.returned[i])

\* C10: the dataframe clean_data returns has the rows of its input, each with
\* its label direction and a column direction_numeric that is 0 for 'DOWN',
\* 1 for 'STAY' and 2 for 'UP'.
C10_DirectionNumeric ==
    clean.pc = "returned" =>
        /\ Len(clean.returned) = Len(clean.input_df)
        /\ \A i \in DOMAIN clean.returned :
            LET row == clean.returned[i]
            IN /\ row.direction = clean.input_df[i].direction
               /\ "direction_numeric" \in DOMAIN row
               /\ row.direction = "DOWN" => row.direction_numeric = 0
               /\ row.direction = "STAY" => row.direction_numeric = 1
               /\ row.direction = "UP" => row.direction_numeric = 2
               /\ row.direction \in {"DOWN", "STAY", "UP"}

\* C10 witness: a dataframe with an 'UP' row and a 'STAY' row was returned.
C10_Witness ==
    /\ clean.pc = "returned"
    /\ Len(clean.returned) = 2
    /\ clean.returned[1].direction = "UP"
    /\ clean.returned[1].direction_numeric = 2
    /\ clean.returned[2].direction = "STAY"
    /\ clean.returned[2].direction_numeric = 1

-----------------------------------------------------------------------------
(* The stock-direction notebook: create_query.                             *)
(* A string of SQL is the sequence of its tokens; white space is left out. *)

\* The phases create_query is called with: the three of its docstring and a
\* string that is none of them.
Phases == {"TRAIN", "VALID", "TEST", "OTHER"}

\* basequery: #standardSQL SELECT symbol, Date, direction,
\* close_values_prior_260 FROM stock_market.eps_percent_change_sp500
\* (the back quotes around the table name are left out)
BaseQuery ==
    <<"#standardSQL", "SELECT", "symbol", ",", "Date", ",", "direction", ",",
      "close_values_prior_260", "FROM", "stock_market.eps_percent_change_sp500">>

\* A split with a lower Date bound only: the mutant of SplitTemplate.
SplitTemplateNoCeiling == <<"WHERE", "Date", ">=", "'", "{}", "'">>

\* The string _create_split formats: WHERE Date >= '{}' AND Date < '{}'
SplitTemplate ==
    <<"WHERE", "Date", ">=", "'", "{}", "'", "AND", "Date", "<", "'", "{}", "'">>

RECURSIVE Format(_, _)
\* template.format(*args): the k-th {} of the template becomes args[k].
Format(template, args) ==
    IF template = <<>> THEN <<>>
    ELSE IF Head(template) = "{}"
         THEN <<Head(args)>> \o Format(Tail(template), Tail(args))
         ELSE <<Head(template)>> \o Format(Tail(template), args)

\* create_query(phase) is called.
QueryCall ==
    /\ query.pc = "idle"
    /\ Len(query.calls) < MaxCalls
    /\ \E phase \in Phases :
        query' = [query EXCEPT !.phase = phase, !.basequery = <<>>, !.floor = "",
                               !.ceiling = "", !.split = <<>>, !.pc = "basequery"]
    /\ UNCHANGED <<ganVars, gif, clean, cicd>>

\* basequery = """ ... """
QueryBase ==
    /\ query.pc = "basequery"
    /\ query' = [query EXCEPT !.basequery = BaseQuery, !.pc = "split_defaults"]
    /\ UNCHANGED <<ganVars, gif, clean, cicd>>

\* _create_split(phase): floor, ceiling = "2002-11-01", "2010-07-01"
SplitDefaults ==
    /\ query.pc = "split_defaults"
    /\ query' = [query EXCEPT !.floor = "2002-11-01", !.ceiling = "2010-07-01",
                               !.pc = "split_phase"]
    /\ UNCHANGED <<ganVars, gif, clean, cicd>>

\* if phase == "VALID": ... elif phase == "TEST": ...
SplitPhase ==
    /\ query.pc = "split_phase"
    /\ IF query.phase = "VALID"
       THEN query' = [query EXCEPT !.floor = "2010-07-01", !.ceiling = "2011-09-01",
                                   !.pc = "split_format"]
       ELSE IF query.phase = "TEST"
       THEN query' = [query EXCEPT !.floor = "2011-09-01", !.ceiling = "2012-11-30",
                                   !.pc = "split_format"]
       ELSE query' = [query EXCEPT !.pc = "split_format"]
    /\ UNCHANGED <<ganVars, gif, clean, cicd>>

\* return """ WHERE Date >= '{}' AND Date < '{}' """.format(floor, ceiling)
SplitFormat ==
    /\ query.pc = "split_format"
    /\ query' = [query EXCEPT
                   !.split = Format(SplitTemplate, <<query.floor, query.ceiling>>),
                   !.pc = "return"]
    /\ UNCHANGED <<ganVars, gif, clean, cicd>>

\* return basequery + _create_split(phase)
QueryReturn ==
    /\ query.pc = "return"
    /\ query' = [query EXCEPT
                   !.calls = Append(@, [phase |-> query.phase,
                                        returned |-> query.basequery \o query.split]),
                   !.pc = "idle"]
    /\ UNCHANGED <<ganVars, gif, clean, cicd>>

QueryInit ==
    /\ GanInit
    /\ gif = GifIdle
    /\ clean = CleanIdle
    /\ query = QueryIdle
    /\ cicd = CicdIdle

QueryNext ==
    \/ QueryCall
    \/ QueryBase
    \/ SplitDefaults
    \/ SplitPhase
    \/ SplitFormat
    \/ QueryReturn

SpecQuery == QueryInit /\ [][QueryNext]_vars

\* The places of token t in the string q.
Places(q, t) == {k \in 1..Len(q) : q[k] = t}

\* Key words of the statements that modify data or tables.
ModifyingWords == {"INSERT", "UPDATE", "DELETE", "MERGE", "CREATE", "DROP",
                   "ALTER", "TRUNCATE"}

\* C11: every string create_query has returned is one SELECT of symbol, Date,
\* direction and close_values_prior_260 from
\* stock_market.eps_percent_change_sp500, followed by one WHERE clause with
\* one lower and one upper bound on Date, with no word of a statement that
\* modifies data and no second statement; two calls with the same phase
\* have returned the same string.
C11_ReadOnlyQuery ==
    /\ \A c \in 1..Len(query.calls) :
        LET q == query.calls[c].returned
        IN /\ Cardinality(Places(q, "SELECT")) = 1
           /\ Cardinality(Places(q, "FROM")) = 1
           /\ Cardinality(Places(q, "WHERE")) = 1
           /\ \E s \in Places(q, "SELECT"), f \in Places(q, "FROM"),
                 w \in Places(q, "WHERE") :
                /\ SubSeq(q, s + 1, f - 1) =
                     <<"symbol", ",", "Date", ",", "direction", ",",
                       "close_values_prior_260">>
                /\ w = f + 2
                /\ q[f + 1] = "stock_market.eps_percent_change_sp500"
                /\ \A k \in Places(q, ">=") \cup Places(q, "<") :
                     k > w + 1 /\ q[k - 1] = "Date"
           /\ Cardinality(Places(q, ">=") \cup Places(q, ">")) = 1
           /\ Cardinality(Places(q, "<") \cup Places(q, "<=")) = 1
           /\ \A k \in 1..Len(q) : q[k] \notin ModifyingWords \cup {";", "{}"}
    /\ \A c, d \in 1..Len(query.calls) :
        query.calls[c].phase = query.calls[d].phase =>
            query.calls[c].returned = query.calls[d].returned

\* C11 witness: create_query("VALID") has returned twice, around a call for
\* another phase, with the bounds of the validation split.
C11_Witness ==
    /\ Len(query.calls) = 3
    /\ query.calls[1].phase = "VALID"
    /\ query.calls[2].phase = "OTHER"
    /\ query.calls[3].phase = "VALID"
    /\ query.calls[3].returned =
         BaseQuery \o <<"WHERE", "Date", ">=", "'", "2010-07-01", "'",
                        "AND", "Date", "<", "'", "2011-09-01", "'">>
    /\ query.calls[2].returned # query.calls[1].returned

-----------------------------------------------------------------------------
(* The CI/CD notebook: the Cloud Build workflow of cloudbuild_vertex.yaml. *)
(* Cloud Build runs the steps of a configuration file; a step without a    *)
(* waitFor field waits for all the steps before it, a failed step fails    *)
(* the build, and the images listed under "images:" are pushed once all    *)
(* the steps have succeeded.                                               *)

\* steps: of cloudbuild_vertex.yaml, in the order of the file.
Steps == <<"build_trainer_image", "compile_pipeline", "run_pipeline">>

\* images: of cloudbuild_vertex.yaml, the push that ends a build.
ImagesStage == "push_trainer_image"

\* A build that was just started from the push or the command source.
NewBuild(source) ==
    [source |-> source,
     status |-> "working",
     results |-> [i \in 1..Len(Steps) |-> "pending"],
     push |-> "pending",
     started |-> <<>>]

\* A step that waits for nothing (waitFor: ['-']): the mutant of StepReady.
StepReadyNoWait(b, i) == TRUE

\* Step i of build b may start: no step of the file has a waitFor field, so
\* it waits until all the steps before it have succeeded.
StepReady(b, i) == \A j \in 1..(i - 1) : b.results[j] = "success"

\* The images may be pushed: all the steps have succeeded.
ImagesReady(b) == \A i \in 1..Len(Steps) : b.results[i] = "success"

\* A step of a running build starts.
StepStart ==
    /\ \E k \in 1..Len(cicd.builds), i \in 1..Len(Steps) :
        LET b == cicd.builds[k]
        IN /\ b.status = "working"
           /\ b.results[i] = "pending"
           /\ StepReady(b, i)
           /\ cicd' = [cicd EXCEPT
                         !.builds[k].results[i] = "running",
                         !.builds[k].started = Append(@, Steps[i])]
    /\ UNCHANGED <<ganVars, gif, clean, query>>

\* A running step ends, with exit code zero or not; a failed step fails the
\* build.
StepFinish ==
    /\ \E k \in 1..Len(cicd.builds), i \in 1..Len(Steps), ok \in BOOLEAN :
        LET b == cicd.builds[k]
        IN /\ b.status = "working"
           /\ b.results[i] = "running"
           /\ cicd' = [cicd EXCEPT
                         !.builds[k].results[i] = IF ok THEN "success" ELSE "failure",
                         !.builds[k].status = IF ok THEN @ ELSE "failure"]
    /\ UNCHANGED <<ganVars, gif, clean, query>>

\* The images of "images:" are pushed, which ends the build; the push can
\* fail.
PushImages ==
    /\ \E k \in 1..Len(cicd.builds), ok \in BOOLEAN :
        LET b == cicd.builds[k]
        IN /\ b.status = "working"
           /\ b.push = "pending"
           /\ ImagesReady(b)
           /\ cicd' = [cicd EXCEPT
                         !.builds[k].push = IF ok THEN "success" ELSE "failure",
                         !.builds[k].status = IF ok THEN "success" ELSE "failure",
                         !.builds[k].started = Append(@, ImagesStage)]
    /\ UNCHANGED <<ganVars, gif, clean, query>>

\* timeout: 10800s passes before the build has ended.
BuildTimeout ==
    /\ \E k \in 1..Len(cicd.builds) :
        /\ cicd.builds[k].status = "working"
        /\ cicd' = [cicd EXCEPT !.builds[k].status = "timeout"]
    /\ UNCHANGED <<ganVars, gif, clean, query>>

\* !gcloud builds submit . --config cloudbuild_vertex.yaml
SubmitBuild ==
    /\ Len(cicd.builds) < MaxBuilds
    /\ cicd' = [cicd EXCEPT
                  !.builds = Append(@, NewBuild([kind |-> "manual", name |-> <<>>]))]
    /\ UNCHANGED <<ganVars, gif, clean, query>>

\* The names a tag of the fork can have, as sequences of characters.
TagNames == {<<"v", "1">>, <<"r", "c">>, <<"1", ".", "0">>}

\* The branch that commits are pushed to.
BranchName == <<"m", "a", "i", "n">>

\* Event of the trigger form: Tag.
TriggerEvent == "tag"

\* A regular expression that starts only the builds of version tags: the
\* mutant of TagRegex.
TagRegexVersions == <<"v", ".", "*">>

\* Tag (regex) of the trigger form: .* (the back slash of the notebook text
\* keeps the star from being read as emphasis).
TagRegex == <<".", "*">>

\* One character of a regular expression matches one character of a name.
CharMatch(p, c) == p = "." \/ p = c

\* The whole name s matches the regular expression re (characters, the dot
\* and the star).
RECURSIVE Matches(_, _)
Matches(re, s) ==
    IF re = <<>> THEN s = <<>>
    ELSE IF Len(re) >= 2 /\ re[2] = "*"
         THEN \/ Matches(Tail(Tail(re)), s)
              \/ /\ s # <<>>
                 /\ CharMatch(re[1], s[1])
                 /\ Matches(re, Tail(s))
         ELSE /\ s # <<>>
              /\ CharMatch(re[1], s[1])
              /\ Matches(Tail(re), Tail(s))

\* The trigger starts a build for the push event ev.
TriggerFires(ev) == ev.kind = TriggerEvent /\ Matches(TagRegex, ev.name)

\* The builds after GitHub has delivered the push event ev to Cloud Build.
OnPush(builds, ev) ==
    IF TriggerFires(ev) THEN Append(builds, NewBuild(ev)) ELSE builds

\* git tag [TAG NAME]; git push origin --tags, with a tag the fork does not
\* have yet.
PushTag ==
    /\ Len(cicd.builds) < MaxBuilds
    /\ \E t \in TagNames \ cicd.tags :
        cicd' = [cicd EXCEPT
                   !.tags = @ \cup {t},
                   !.builds = OnPush(@, [kind |-> "tag", name |-> t])]
    /\ UNCHANGED <<ganVars, gif, clean, query>>

\* A push of commits to a branch of the fork, with no tag.
PushCommit ==
    /\ cicd.commits < MaxCommits
    /\ cicd' = [cicd EXCEPT
                  !.commits = @ + 1,
                  !.builds = OnPush(@, [kind |-> "branch", name |-> BranchName])]
    /\ UNCHANGED <<ganVars, gif, clean, query>>

CicdInit ==
    /\ GanInit
    /\ gif = GifIdle
    /\ clean = CleanIdle
    /\ query = QueryIdle
    /\ cicd = CicdIdle

CicdNext ==
    \/ PushTag
    \/ PushCommit
    \/ SubmitBuild
    \/ StepStart
    \/ StepFinish
    \/ PushImages
    \/ BuildTimeout

SpecCicd == CicdInit /\ [][CicdNext]_vars

\* The builds that the push of tag t started.
BuildsOfTag(t) ==
    {k \in 1..Len(cicd.builds) : cicd.builds[k].source = [kind |-> "tag", name |-> t]}

\* s is a prefix of t.
IsPrefix(s, t) == Len(s) <= Len(t) /\ s = SubSeq(t, 1, Len(s))

\* C12: every run of the workflow starts its stages in the order build the
\* trainer image, compile the pipeline, run the pipeline, push the trainer
\* image; a stage has started only if every stage before it has succeeded;
\* after a failed stage no later stage has started, so no image is pushed
\* when the pipeline run fails.
C12_StageOrder ==
    \A k \in 1..Len(cicd.builds) :
        LET b == cicd.builds[k]
        IN /\ IsPrefix(b.started, <<"build_trainer_image", "compile_pipeline",
                                    "run_pipeline", "push_trainer_image">>)
           /\ \A i \in 1..3 :
                /\ b.results[i] # "pending" =>
                     \A j \in 1..(i - 1) : b.results[j] = "success"
                /\ b.results[i] = "failure" =>
                     /\ \A j \in (i + 1)..3 : b.results[j] = "pending"
                     /\ b.push = "pending"
                     /\ b.status = "failure"
           /\ b.push # "pending" => \A i \in 1..3 : b.results[i] = "success"
           /\ b.status = "success" => b.push = "success"

\* A run whose pipeline run failed after the image was built and the
\* pipeline compiled, next to a run that went through and pushed its image.
C12_Witness ==
    /\ \E k \in 1..Len(cicd.builds) :
        /\ cicd.builds[k].results = <<"success", "success", "failure">>
        /\ cicd.builds[k].push = "pending"
        /\ Len(cicd.builds[k].started) = 3
    /\ \E k \in 1..Len(cicd.builds) :
        /\ cicd.builds[k].status = "success"
        /\ Len(cicd.builds[k].started) = 4

\* C13: with the trigger on the event Tag and the regular expression .*,
\* every tag that was pushed to the fork has started exactly one run,
\* whatever its name; every run a push started is the run of a tag of the
\* fork; the pushes of commits without a tag have started no run.
C13_TagTrigger ==
    /\ \A t \in cicd.tags : Cardinality(BuildsOfTag(t)) = 1
    /\ \A k \in 1..Len(cicd.builds) :
        LET source == cicd.builds[k].source
        IN /\ source.kind # "branch"
           /\ source.kind = "tag" => source.name \in cicd.tags

\* Two tags, neither of them a version name starting with v, and a push of
\* commits: two runs, one for each tag.
C13_Witness ==
    /\ cicd.tags = {<<"r", "c">>, <<"1", ".", "0">>}
    /\ cicd.commits = 1
    /\ Len(cicd.builds) = 2
    /\ BuildsOfTag(<<"r", "c">>) # {}
    /\ BuildsOfTag(<<"1", ".", "0">>) # {}

====
